---- MODULE Spec2Model ----
(***************************************************************************)
(* Model of src/platform/mpris/dbus/controls.rs: the MediaControls facade  *)
(* (attach / detach / setters), the mpsc command channel, the service      *)
(* worker loop of run_service, the ServiceState it owns and the metadata   *)
(* codec create_metadata_dict.                                             *)
(*                                                                         *)
(* Conventions: Option<T> is a sequence of length 0 (None) or 1 (Some);    *)
(* an f64 volume is an integer number of hundredths (100 is 1.0), it is    *)
(* only ever stored and copied; a boxed D-Bus value is a record of its     *)
(* wire type and its value.                                                *)
(***************************************************************************)
EXTENDS Integers, Sequences, FiniteSets, TLC

\* Bounds of the exploration: the workers spawned and the commands the
\* channels accept over a run, with the small input sets (MaxWorkers,
\* MaxCmds) and with the full ones (MaxAllWorkers, MaxAllCmds).
MaxWorkers == 2
MaxCmds == 2
MaxAllWorkers == 1
MaxAllCmds == 1

Workers == 1..MaxWorkers

None == <<>>
Some(v) == <<v>>

(***************************************************************************)
(* Errors and results.                                                     *)
(***************************************************************************)
Ok == [kind |-> "Ok"]
ThreadNotRunning == [kind |-> "ThreadNotRunning"]
ThreadPanicked == [kind |-> "ThreadPanicked"]
\* `?` on a dbus::Error: the From conversion into the crate's Error.
FromDbusError(origin) == [kind |-> "DbusError", origin |-> origin]
\* The calling thread unwound out of the call (an unwrap failed).
CallerPanic == [kind |-> "panic"]

\* What JoinHandle::join yields for a worker: Err(_) when the thread
\* panicked, Ok(r) with r the value run_service returned otherwise.
NoResult == [kind |-> "running"]
Returned(r) == [kind |-> "returned", value |-> r]
Panicked == [kind |-> "panicked"]

(***************************************************************************)
(* Metadata, playback, buttons, events.                                    *)
(***************************************************************************)
DefaultMetadata ==
    [title |-> None, album |-> None, artist |-> None, cover_url |-> None,
     duration |-> None]

\* A std::time::Duration as its microsecond count (a u128): `over` tells
\* that the count exceeds i64::MAX, `micros` is the count when it does not.
Micros(n) == [over |-> FALSE, micros |-> n]
TooLong == [over |-> TRUE, micros |-> 0]

\* d.as_micros().try_into(): Ok(i64) or Err.
try_into(d) == IF d.over THEN None ELSE Some(d.micros)

\* impl From<MediaMetadata> for OwnedMetadata; the unwrap panics when the
\* duration does not fit an i64.
FromPanics(other) ==
    other.duration # None /\ try_into(other.duration[1]) = None

From(other) ==
    [title |-> other.title, album |-> other.album, artist |-> other.artist,
     cover_url |-> other.cover_url,
     duration |-> IF other.duration = None THEN None
                  ELSE Some(try_into(other.duration[1])[1])]

Stopped == [kind |-> "Stopped"]
Playing(progress) == [kind |-> "Playing", progress |-> progress]
Paused(progress) == [kind |-> "Paused", progress |-> progress]

MediaButton == {"Play", "Pause", "Next", "Previous", "Seek", "Stop"}

ChangeMetadata(m) == [type |-> "ChangeMetadata", metadata |-> m]
ChangePlayback(p) == [type |-> "ChangePlayback", playback |-> p]
ChangeVolume(v) == [type |-> "ChangeVolume", volume |-> v]
ChangeButtonEnabled(b, e) ==
    [type |-> "ChangeButtonEnabled", button |-> b, enabled |-> e]
Kill == [type |-> "Kill"]
NoEvent == [type |-> "none"]

(***************************************************************************)
(* The metadata codec.                                                     *)
(***************************************************************************)
Variant(ty, v) == [type |-> ty, value |-> v]

EmptyMap == [k \in {} |-> k]

\* HashMap::insert: the key is added, or its value replaced.
insert(map, k, v) ==
    [x \in (DOMAIN map) \cup {k} |-> IF x = k THEN v ELSE map[x]]

\* The codec writing an empty album for a missing one.
create_metadata_dict_Placeholder(metadata) ==
    LET d0 == insert(EmptyMap, "mpris:trackid", Variant("Path", "/"))
        d1 == IF metadata.duration # None
              THEN insert(d0, "mpris:length",
                          Variant("i64", metadata.duration[1]))
              ELSE d0
        d2 == IF metadata.cover_url # None
              THEN insert(d1, "mpris:artUrl",
                          Variant("String", metadata.cover_url[1]))
              ELSE d1
        d3 == IF metadata.title # None
              THEN insert(d2, "xesam:title",
                          Variant("String", metadata.title[1]))
              ELSE d2
        d4 == IF metadata.artist # None
              THEN insert(d3, "xesam:artist",
                          Variant("Vec<String>", <<metadata.artist[1]>>))
              ELSE d3
        d5 == insert(d4, "xesam:album",
                     Variant("String", IF metadata.album # None
                                       THEN metadata.album[1] ELSE ""))
    IN  d5

create_metadata_dict(metadata) ==
    LET d0 == insert(EmptyMap, "mpris:trackid", Variant("Path", "/"))
        d1 == IF metadata.duration # None
              THEN insert(d0, "mpris:length",
                          Variant("i64", metadata.duration[1]))
              ELSE d0
        d2 == IF metadata.cover_url # None
              THEN insert(d1, "mpris:artUrl",
                          Variant("String", metadata.cover_url[1]))
              ELSE d1
        d3 == IF metadata.title # None
              THEN insert(d2, "xesam:title",
                          Variant("String", metadata.title[1]))
              ELSE d2
        d4 == IF metadata.artist # None
              THEN insert(d3, "xesam:artist",
                          Variant("Vec<String>", <<metadata.artist[1]>>))
              ELSE d3
        d5 == IF metadata.album # None
              THEN insert(d4, "xesam:album",
                          Variant("String", metadata.album[1]))
              ELSE d4
    IN  d5

(***************************************************************************)
(* Service state.                                                          *)
(***************************************************************************)
DefaultVolume == 100

\* The state built from the defaults of its field types.
InitialServiceState_Derived ==
    [metadata |-> DefaultMetadata,
     metadata_dict |-> create_metadata_dict(DefaultMetadata),
     playback_status |-> Stopped,
     volume |-> 0,
     can_play |-> FALSE, can_pause |-> FALSE, can_go_next |-> FALSE,
     can_go_previous |-> FALSE, can_seek |-> FALSE]

InitialServiceState ==
    [metadata |-> DefaultMetadata,
     metadata_dict |-> create_metadata_dict(DefaultMetadata),
     playback_status |-> Stopped,
     volume |-> DefaultVolume,
     can_play |-> TRUE, can_pause |-> TRUE, can_go_next |-> TRUE,
     can_go_previous |-> TRUE, can_seek |-> TRUE]

NoState == [dropped |-> TRUE]

\* The match with the arms of Paused and Stopped exchanged.
get_playback_status_Swapped(st) ==
    CASE st.playback_status.kind = "Playing" -> "Playing"
      [] st.playback_status.kind = "Paused" -> "Stopped"
      [] st.playback_status.kind = "Stopped" -> "Paused"

get_playback_status(st) ==
    CASE st.playback_status.kind = "Playing" -> "Playing"
      [] st.playback_status.kind = "Paused" -> "Paused"
      [] st.playback_status.kind = "Stopped" -> "Stopped"

(***************************************************************************)
(* Inputs the host passes to the setters: a small set of each for the      *)
(* runs that follow the life of several workers, and a full set of each    *)
(* for the runs that follow single commands.                               *)
(***************************************************************************)
MediaMetadataInputs ==
    { [DefaultMetadata EXCEPT !.title = Some("A"),
                              !.duration = Some(Micros(1000))],
      [DefaultMetadata EXCEPT !.duration = Some(TooLong)] }

PlaybackInputs == { Paused(None) }

VolumeInputs == { 0, 150 }

ButtonInputs == { <<"Stop", FALSE>> }

AllMediaMetadataInputs ==
    { DefaultMetadata,
      [DefaultMetadata EXCEPT !.title = Some("A"),
                              !.duration = Some(Micros(1000))],
      [title |-> Some("A"), album |-> Some("L"), artist |-> Some("X"),
       cover_url |-> Some("file:///c.png"), duration |-> Some(Micros(0))],
      [DefaultMetadata EXCEPT !.duration = Some(TooLong)] }

AllPlaybackInputs ==
    { Playing(None), Playing(Some(7)), Paused(None), Paused(Some(7)),
      Stopped }

AllVolumeInputs == { 0, 100, 150 }

AllButtonInputs == MediaButton \X BOOLEAN

(***************************************************************************)
(* State.                                                                  *)
(***************************************************************************)
VARIABLES
    thread,      \* MediaControls.thread: NoThread, or the worker of the handle
    fpc,         \* where the caller is inside attach / detach
    fop,         \* the facade operation in progress
    joining,     \* the worker thread.join() waits for
    conn,        \* the connection attach has opened and not yet handed over
    call,        \* the last facade call that returned, and its result
    nspawned,    \* number of workers spawned so far
    budget,      \* number of commands the channels will still accept
    spawnsLeft,  \* number of workers attach may still spawn
    wpc,         \* per worker: position in run_service
    queue,       \* per worker: content of its mpsc channel
    cur,         \* per worker: `event` of the current loop iteration
    state,       \* per worker: its ServiceState
    changed,     \* per worker: `changed_properties`
    lockHeld,    \* per worker: the state mutex is held
    result,      \* per worker: what join will yield
    nsignals,    \* per worker: number of messages passed to conn.send
    lastSignal,  \* per worker: the last message passed to conn.send
    accepted,    \* per worker: the commands its channel accepted from setters
    applied,     \* per worker: the commands it has applied to its state
    reply,       \* per worker: the PlaybackStatus read that conn.process served
    holdsName,   \* connections of the model that own the bus name
    queued,      \* connections of the model waiting in the bus name's queue
    codecIn,     \* argument of create_metadata_dict (codec specification)
    codecOut     \* its result

fvars == <<thread, fpc, fop, joining, conn, call, nspawned, budget,
          spawnsLeft>>
wvars == <<wpc, queue, cur, state, changed, lockHeld, result, nsignals,
          lastSignal>>
hvars == <<accepted, applied, reply>>
bvars == <<holdsName, queued>>
cvars == <<codecIn, codecOut>>
vars == <<thread, fpc, fop, joining, conn, call, nspawned, budget,
          spawnsLeft,
          wpc, queue, cur, state, changed, lockHeld, result, nsignals,
          lastSignal, accepted, applied, reply,
          holdsName, queued, codecIn, codecOut>>

NoThread == 0
NoConn == 0
NoSignal == [sent |-> FALSE]
NoReply == "none"

Alive(k) == wpc[k] \notin {"unborn", "done"}

\* The program right after MediaControls::new.
InitProgram ==
    /\ thread = NoThread
    /\ fpc = "idle"
    /\ fop = "none"
    /\ joining = NoThread
    /\ conn = NoConn
    /\ call = [seq |-> FALSE, op |-> "new", ret |-> Ok]
    /\ nspawned = 0
    /\ wpc = [k \in Workers |-> "unborn"]
    /\ queue = [k \in Workers |-> <<>>]
    /\ cur = [k \in Workers |-> NoEvent]
    /\ state = [k \in Workers |-> NoState]
    /\ changed = [k \in Workers |-> EmptyMap]
    /\ lockHeld = [k \in Workers |-> FALSE]
    /\ result = [k \in Workers |-> NoResult]
    /\ nsignals = [k \in Workers |-> 0]
    /\ lastSignal = [k \in Workers |-> NoSignal]
    /\ accepted = [k \in Workers |-> <<>>]
    /\ applied = [k \in Workers |-> <<>>]
    /\ reply = [k \in Workers |-> NoReply]
    /\ holdsName = {}
    /\ queued = {}

Init ==
    /\ InitProgram
    /\ budget = MaxCmds
    /\ spawnsLeft = MaxWorkers
    /\ codecIn = DefaultMetadata
    /\ codecOut = EmptyMap

(***************************************************************************)
(* The session bus: ownership of org.mpris.MediaPlayer2.<dbus_name>.  The  *)
(* name is owned by one of the model's connections (holdsName), or by      *)
(* another process while a connection waits for it (queued) and no         *)
(* connection of the model owns it.                                        *)
(***************************************************************************)
\* A connection is dropped: it leaves the name's queue, and the name it
\* owned passes to a connection waiting for it.
NameAfterClose(c) ==
    LET q == queued \ {c}
    IN  IF c \in holdsName /\ q # {}
        THEN LET n == CHOOSE x \in q : TRUE
             IN  [holds |-> {n}, queued |-> q \ {n}]
        ELSE [holds |-> holdsName \ {c}, queued |-> q]

CloseConn(c) ==
    /\ holdsName' = NameAfterClose(c).holds
    /\ queued' = NameAfterClose(c).queued

\* The other process that owns the name gives it up: the name passes to a
\* connection waiting for it.
ExtRelease ==
    /\ holdsName = {}
    /\ queued # {}
    /\ LET n == CHOOSE x \in queued : TRUE
       IN  holdsName' = {n} /\ queued' = queued \ {n}
    /\ UNCHANGED <<fvars, wvars, hvars, cvars>>

(***************************************************************************)
(* The facade.                                                             *)
(***************************************************************************)
\* The call returns r to the caller.
Return(op, r) ==
    /\ call' = [seq |-> ~call.seq, op |-> op, ret |-> r]
    /\ fpc' = "idle"
    /\ fop' = "none"

\* mpsc::Sender::send: Ok while the receiver exists, Err once it is dropped.
ReceiverExists(k) == Alive(k)

send_internal_event(op, event) ==
    /\ fpc = "idle"
    /\ IF thread = NoThread
       THEN /\ Return(op, ThreadNotRunning)
            /\ UNCHANGED <<queue, budget, accepted>>
       ELSE IF ReceiverExists(thread)
            THEN /\ budget > 0
                 /\ queue' = [queue EXCEPT ![thread] = Append(@, event)]
                 /\ accepted' = [accepted EXCEPT ![thread] = Append(@, event)]
                 /\ budget' = budget - 1
                 /\ Return(op, Ok)
            ELSE /\ Return(op, ThreadPanicked)
                 /\ UNCHANGED <<queue, budget, accepted>>
    /\ UNCHANGED <<thread, joining, conn, nspawned, spawnsLeft>>
    /\ UNCHANGED <<wpc, cur, state, changed, lockHeld, result, nsignals,
                   lastSignal, applied, reply>>
    /\ UNCHANGED <<bvars, cvars>>

set_playback(playback) ==
    send_internal_event("set_playback", ChangePlayback(playback))

set_metadata(metadata) ==
    IF FromPanics(metadata)
    THEN /\ fpc = "idle"
         /\ Return("set_metadata", CallerPanic)
         /\ UNCHANGED <<thread, joining, conn, nspawned, budget, spawnsLeft>>
         /\ UNCHANGED <<wvars, hvars, bvars, cvars>>
    ELSE send_internal_event("set_metadata", ChangeMetadata(From(metadata)))

set_volume(volume) ==
    send_internal_event("set_volume", ChangeVolume(volume))

set_button_enabled(button, enabled) ==
    send_internal_event("set_button_enabled",
                        ChangeButtonEnabled(button, enabled))

\* detach with as_ref() in place of take(): the handle stays stored.
TakeAndKill_KeepHandle(op) ==
    /\ thread # NoThread
    /\ joining' = thread
    /\ thread' = thread
    /\ queue' = IF ReceiverExists(thread)
                THEN [queue EXCEPT ![thread] = Append(@, Kill)]
                ELSE queue
    /\ fpc' = "join"
    /\ fop' = op
    /\ UNCHANGED call

\* detach without the send of Kill.
TakeAndKill_NoKill(op) ==
    /\ thread # NoThread
    /\ joining' = thread
    /\ thread' = NoThread
    /\ queue' = queue
    /\ fpc' = "join"
    /\ fop' = op
    /\ UNCHANGED call

\* detach with Kill overtaking the commands of the channel.
TakeAndKill_KillFirst(op) ==
    /\ thread # NoThread
    /\ joining' = thread
    /\ thread' = NoThread
    /\ queue' = IF ReceiverExists(thread)
                THEN [queue EXCEPT ![thread] = <<Kill>> \o @]
                ELSE queue
    /\ fpc' = "join"
    /\ fop' = op
    /\ UNCHANGED call

\* detach, lines 169-176: the handle is taken out of self.thread and Kill is
\* sent on its channel, the result of the send being dropped.
TakeAndKill(op) ==
    /\ thread # NoThread
    /\ joining' = thread
    /\ thread' = NoThread
    /\ queue' = IF ReceiverExists(thread)
                THEN [queue EXCEPT ![thread] = Append(@, Kill)]
                ELSE queue
    /\ fpc' = "join"
    /\ fop' = op
    /\ UNCHANGED call

detach ==
    /\ fpc = "idle"
    /\ IF thread = NoThread
       THEN /\ Return("detach", Ok)
            /\ UNCHANGED <<thread, joining, queue>>
       ELSE TakeAndKill("detach")
    /\ UNCHANGED <<conn, nspawned, budget, spawnsLeft>>
    /\ UNCHANGED <<wpc, cur, state, changed, lockHeld, result, nsignals,
                   lastSignal>>
    /\ UNCHANGED <<hvars, bvars, cvars>>

\* attach without its self.detach()?.
attach_NoDetach ==
    /\ fpc = "idle"
    /\ spawnsLeft > 0
    /\ fpc' = "connect"
    /\ fop' = "attach"
    /\ UNCHANGED <<thread, joining, queue, call>>
    /\ UNCHANGED <<conn, nspawned, budget, spawnsLeft>>
    /\ UNCHANGED <<wpc, cur, state, changed, lockHeld, result, nsignals,
                   lastSignal>>
    /\ UNCHANGED <<hvars, bvars, cvars>>

\* attach, line 149: self.detach()?
attach ==
    /\ fpc = "idle"
    /\ spawnsLeft > 0
    /\ IF thread = NoThread
       THEN /\ fpc' = "connect"
            /\ fop' = "attach"
            /\ UNCHANGED <<thread, joining, queue, call>>
       ELSE TakeAndKill("attach")
    /\ UNCHANGED <<conn, nspawned, budget, spawnsLeft>>
    /\ UNCHANGED <<wpc, cur, state, changed, lockHeld, result, nsignals,
                   lastSignal>>
    /\ UNCHANGED <<hvars, bvars, cvars>>

\* join with both failures mapped to ThreadPanicked.
JoinResult_Flat(res) ==
    IF res.kind = "panicked" \/ res.value # Ok THEN ThreadPanicked ELSE Ok

\* join with one `?`: the value the worker returned is not looked at.
JoinResult_OuterOnly(res) ==
    IF res.kind = "panicked" THEN ThreadPanicked ELSE Ok

\* thread.join().map_err(|_| Error::ThreadPanicked)??
JoinResult(res) ==
    IF res.kind = "panicked" THEN ThreadPanicked ELSE res.value

\* join returns once the worker thread has finished.
Joinable(k) == result[k] # NoResult

join ==
    /\ fpc = "join"
    /\ Joinable(joining)
    /\ LET r == JoinResult(result[joining])
       IN  IF fop = "attach" /\ r = Ok
           THEN fpc' = "connect" /\ UNCHANGED <<fop, call>>
           ELSE Return(fop, r)
    /\ joining' = NoThread
    /\ UNCHANGED <<thread, conn, nspawned, budget, spawnsLeft>>
    /\ UNCHANGED <<wvars, hvars, bvars, cvars>>

\* attach, line 156: Connection::new_session()?
new_session ==
    /\ fpc = "connect"
    /\ \/ /\ conn' = nspawned + 1
          /\ fpc' = "request"
          /\ UNCHANGED <<fop, call>>
       \/ /\ Return("attach", FromDbusError("new_session"))
          /\ UNCHANGED conn
    /\ UNCHANGED <<thread, joining, nspawned, budget, spawnsLeft>>
    /\ UNCHANGED <<wvars, hvars, bvars, cvars>>

\* attach, line 158: conn.request_name(name, false, true, false)?  The
\* request does not allow replacement, replaces an owner that allows it and
\* queues behind one that does not; the reply of a successful call is not
\* looked at.  With the name free, or owned by a process that allows
\* replacement, the connection becomes the owner; behind another process
\* that does not allow it, or behind a connection of the model, it waits.
request_name ==
    /\ fpc = "request"
    /\ \/ /\ Return("attach", FromDbusError("request_name"))
          /\ conn' = NoConn
          /\ UNCHANGED bvars
       \/ /\ fpc' = "spawn"
          /\ UNCHANGED <<fop, call, conn>>
          /\ IF holdsName = {}
             THEN \/ holdsName' = {conn} /\ UNCHANGED queued
                  \/ queued' = queued \cup {conn} /\ UNCHANGED holdsName
             ELSE queued' = queued \cup {conn} /\ UNCHANGED holdsName
    /\ UNCHANGED <<thread, joining, nspawned, budget, spawnsLeft>>
    /\ UNCHANGED <<wvars, hvars, cvars>>

\* attach, lines 160-164: the worker is spawned with the connection and the
\* receiver, its handle is stored.
spawn ==
    /\ fpc = "spawn"
    /\ thread' = conn
    /\ nspawned' = conn
    /\ spawnsLeft' = spawnsLeft - 1
    /\ wpc' = [wpc EXCEPT ![conn] = "start"]
    /\ conn' = NoConn
    /\ Return("attach", Ok)
    /\ UNCHANGED <<joining, budget>>
    /\ UNCHANGED <<queue, cur, state, changed, lockHeld, result, nsignals,
                   lastSignal>>
    /\ UNCHANGED <<hvars, bvars, cvars>>

(***************************************************************************)
(* The worker: run_service.                                                *)
(***************************************************************************)
PlayerInterface == "org.mpris.MediaPlayer2.Player"
ObjectPath == "/org/mpris/MediaPlayer2"

\* run_service is left (by return or by unwinding): the thread ends with
\* result res; its receiver, its state and its connection are dropped.
Exit(k, res) ==
    /\ wpc' = [wpc EXCEPT ![k] = "done"]
    /\ result' = [result EXCEPT ![k] = res]
    /\ queue' = [queue EXCEPT ![k] = <<>>]
    /\ cur' = [cur EXCEPT ![k] = NoEvent]
    /\ state' = [state EXCEPT ![k] = NoState]
    /\ changed' = [changed EXCEPT ![k] = EmptyMap]
    /\ lastSignal' = [lastSignal EXCEPT ![k] = NoSignal]
    /\ accepted' = [accepted EXCEPT ![k] = <<>>]
    /\ applied' = [applied EXCEPT ![k] = <<>>]
    /\ reply' = [reply EXCEPT ![k] = NoReply]
    /\ CloseConn(k)
    /\ UNCHANGED <<lockHeld, nsignals>>

\* Lines 222-245: the state is created with its defaults, the methods are
\* registered and the connection starts receiving.
WorkerStart(k) ==
    /\ wpc[k] = "start"
    /\ state' = [state EXCEPT ![k] = InitialServiceState]
    /\ wpc' = [wpc EXCEPT ![k] = "recv"]
    /\ UNCHANGED <<queue, cur, changed, lockHeld, result, nsignals,
                   lastSignal>>
    /\ UNCHANGED <<fvars, hvars, bvars, cvars>>

\* The loop taking only the latest command of its channel.
WorkerRecv_Latest(k) ==
    /\ wpc[k] = "recv"
    /\ IF queue[k] # <<>>
       THEN /\ cur' = [cur EXCEPT ![k] = queue[k][Len(queue[k])]]
            /\ queue' = [queue EXCEPT ![k] = <<>>]
            /\ wpc' = [wpc EXCEPT ![k] = "dispatch"]
       ELSE /\ wpc' = [wpc EXCEPT ![k] = "process"]
            /\ UNCHANGED <<cur, queue>>
    /\ reply' = [reply EXCEPT ![k] = NoReply]
    /\ UNCHANGED <<state, changed, lockHeld, result, nsignals, lastSignal>>
    /\ UNCHANGED <<accepted, applied>>
    /\ UNCHANGED <<fvars, bvars, cvars>>

\* Line 248: event_channel.recv_timeout(10 ms).
WorkerRecv(k) ==
    /\ wpc[k] = "recv"
    /\ IF queue[k] # <<>>
       THEN /\ cur' = [cur EXCEPT ![k] = Head(queue[k])]
            /\ queue' = [queue EXCEPT ![k] = Tail(@)]
            /\ wpc' = [wpc EXCEPT ![k] = "dispatch"]
       ELSE /\ wpc' = [wpc EXCEPT ![k] = "process"]
            /\ UNCHANGED <<cur, queue>>
    /\ reply' = [reply EXCEPT ![k] = NoReply]
    /\ UNCHANGED <<state, changed, lockHeld, result, nsignals, lastSignal>>
    /\ UNCHANGED <<accepted, applied>>
    /\ UNCHANGED <<fvars, bvars, cvars>>

\* The loop with its Kill test after the send: Kill is emitted for.
WorkerDispatch_LateBreak(k) ==
    /\ wpc[k] = "dispatch"
    /\ wpc' = [wpc EXCEPT ![k] = IF cur[k] = Kill THEN "emit" ELSE "mutate"]
    /\ changed' = [changed EXCEPT ![k] = EmptyMap]
    /\ lockHeld' = [lockHeld EXCEPT ![k] = cur[k] # Kill]
    /\ UNCHANGED <<queue, cur, state, result, nsignals, lastSignal>>
    /\ UNCHANGED <<hvars, bvars>>
    /\ UNCHANGED <<fvars, cvars>>

\* Lines 249-257: Kill breaks out of the loop and run_service returns
\* Ok(()); any other event gets a fresh changed_properties and its match
\* arm locks the state.
WorkerDispatch(k) ==
    /\ wpc[k] = "dispatch"
    /\ IF cur[k] = Kill
       THEN Exit(k, Returned(Ok))
       ELSE /\ wpc' = [wpc EXCEPT ![k] = "mutate"]
            /\ changed' = [changed EXCEPT ![k] = EmptyMap]
            /\ lockHeld' = [lockHeld EXCEPT ![k] = TRUE]
            /\ UNCHANGED <<queue, cur, state, result, nsignals, lastSignal>>
            /\ UNCHANGED <<hvars, bvars>>
    /\ UNCHANGED <<fvars, cvars>>

\* The match with Stop handled by the arm of Pause.
ButtonState_StopAsPause(st, button, enabled) ==
    CASE button = "Play" -> [st EXCEPT !.can_play = enabled]
      [] button \in {"Pause", "Stop"} -> [st EXCEPT !.can_pause = enabled]
      [] button = "Next" -> [st EXCEPT !.can_go_next = enabled]
      [] button = "Previous" -> [st EXCEPT !.can_go_previous = enabled]
      [] button = "Seek" -> [st EXCEPT !.can_seek = enabled]

\* The match arm of a button, lines 279-308: the new state.
ButtonState(st, button, enabled) ==
    CASE button = "Play" -> [st EXCEPT !.can_play = enabled]
      [] button = "Pause" -> [st EXCEPT !.can_pause = enabled]
      [] button = "Next" -> [st EXCEPT !.can_go_next = enabled]
      [] button = "Previous" -> [st EXCEPT !.can_go_previous = enabled]
      [] button = "Seek" -> [st EXCEPT !.can_seek = enabled]
      [] button = "Stop" -> st

\* The Stop arm exporting a CanStop property.
ButtonChanged_CanStop(map, button, enabled) ==
    CASE button = "Play" -> insert(map, "CanPlay", Variant("bool", enabled))
      [] button = "Pause" -> insert(map, "CanPause", Variant("bool", enabled))
      [] button = "Next" -> insert(map, "CanGoNext", Variant("bool", enabled))
      [] button = "Previous" ->
            insert(map, "CanGoPrevious", Variant("bool", enabled))
      [] button = "Seek" -> insert(map, "CanSeek", Variant("bool", enabled))
      [] button = "Stop" -> insert(map, "CanStop", Variant("bool", enabled))

\* The match arm of a button: what it inserts into changed_properties.
ButtonChanged(map, button, enabled) ==
    CASE button = "Play" -> insert(map, "CanPlay", Variant("bool", enabled))
      [] button = "Pause" -> insert(map, "CanPause", Variant("bool", enabled))
      [] button = "Next" -> insert(map, "CanGoNext", Variant("bool", enabled))
      [] button = "Previous" ->
            insert(map, "CanGoPrevious", Variant("bool", enabled))
      [] button = "Seek" -> insert(map, "CanSeek", Variant("bool", enabled))
      [] button = "Stop" -> map

\* The match arm keeping its guard until the end of the iteration.
Unlock_AfterSend(k) ==
    /\ lockHeld' = lockHeld
    /\ wpc' = [wpc EXCEPT ![k] = "emit"]
    /\ applied' = [applied EXCEPT ![k] = Append(@, cur[k])]
    /\ UNCHANGED <<queue, cur, result, nsignals, lastSignal>>
    /\ UNCHANGED <<accepted, reply>>
    /\ UNCHANGED <<fvars, bvars, cvars>>

\* The end of a match arm: the event has been applied, the guard is
\* dropped, the emit follows.
Unlock(k) ==
    /\ lockHeld' = [lockHeld EXCEPT ![k] = FALSE]
    /\ wpc' = [wpc EXCEPT ![k] = "emit"]
    /\ applied' = [applied EXCEPT ![k] = Append(@, cur[k])]
    /\ UNCHANGED <<queue, cur, result, nsignals, lastSignal>>
    /\ UNCHANGED <<accepted, reply>>
    /\ UNCHANGED <<fvars, bvars, cvars>>

\* set_metadata encoding self.metadata before it is assigned.
WorkerSetDict_Stale(k) ==
    /\ wpc[k] = "mutate"
    /\ cur[k].type = "ChangeMetadata"
    /\ state' = [state EXCEPT
                   ![k].metadata_dict =
                      create_metadata_dict(state[k].metadata)]
    /\ wpc' = [wpc EXCEPT ![k] = "mutate2"]
    /\ UNCHANGED <<queue, cur, changed, lockHeld, result, nsignals,
                   lastSignal>>
    /\ UNCHANGED <<fvars, hvars, bvars, cvars>>

\* ServiceState::set_metadata, line 53, under the lock taken at line 257.
WorkerSetDict(k) ==
    /\ wpc[k] = "mutate"
    /\ cur[k].type = "ChangeMetadata"
    /\ state' = [state EXCEPT
                   ![k].metadata_dict = create_metadata_dict(cur[k].metadata)]
    /\ wpc' = [wpc EXCEPT ![k] = "mutate2"]
    /\ UNCHANGED <<queue, cur, changed, lockHeld, result, nsignals,
                   lastSignal>>
    /\ UNCHANGED <<fvars, hvars, bvars, cvars>>

\* ServiceState::set_metadata, line 54, then lines 259-263.
WorkerSetMetadata(k) ==
    /\ wpc[k] = "mutate2"
    /\ state' = [state EXCEPT ![k].metadata = cur[k].metadata]
    /\ changed' = [changed EXCEPT ![k] =
                     insert(@, "Metadata",
                            Variant("a{sv}", state[k].metadata_dict))]
    /\ Unlock(k)

\* Lines 264-271.
WorkerSetPlayback(k) ==
    /\ wpc[k] = "mutate"
    /\ cur[k].type = "ChangePlayback"
    /\ LET st == [state[k] EXCEPT !.playback_status = cur[k].playback]
       IN  /\ state' = [state EXCEPT ![k] = st]
           /\ changed' = [changed EXCEPT ![k] =
                            insert(@, "PlaybackStatus",
                                   Variant("String", get_playback_status(st)))]
    /\ Unlock(k)

\* Lines 272-276.
WorkerSetVolume(k) ==
    /\ wpc[k] = "mutate"
    /\ cur[k].type = "ChangeVolume"
    /\ state' = [state EXCEPT ![k].volume = cur[k].volume]
    /\ changed' = [changed EXCEPT ![k] =
                     insert(@, "Volume", Variant("f64", cur[k].volume))]
    /\ Unlock(k)

\* Lines 277-309.
WorkerSetButton(k) ==
    /\ wpc[k] = "mutate"
    /\ cur[k].type = "ChangeButtonEnabled"
    /\ state' = [state EXCEPT
                   ![k] = ButtonState(@, cur[k].button, cur[k].enabled)]
    /\ changed' = [changed EXCEPT
                     ![k] = ButtonChanged(@, cur[k].button, cur[k].enabled)]
    /\ Unlock(k)

\* Lines 313-317: the message built from changed_properties.
PropertiesChanged(map) ==
    [interface_name |-> PlayerInterface,
     changed_properties |-> map,
     invalidated_properties |-> <<>>,
     path |-> ObjectPath]

\* The send with its failure returned out of run_service.
WorkerEmit_Escalate(k) ==
    /\ wpc[k] = "emit"
    /\ \/ /\ lastSignal' = [lastSignal EXCEPT ![k] =
                              [msg |-> PropertiesChanged(changed[k]),
                               sent |-> TRUE]]
          /\ nsignals' = [nsignals EXCEPT ![k] = @ + 1]
          /\ cur' = [cur EXCEPT ![k] = NoEvent]
          /\ wpc' = [wpc EXCEPT ![k] = "process"]
          /\ UNCHANGED <<queue, state, changed, lockHeld, result>>
          /\ UNCHANGED <<hvars, bvars>>
       \/ Exit(k, Returned(FromDbusError("send")))
    /\ UNCHANGED <<fvars, cvars>>

\* Lines 313-322: conn.send(...).ok(); whether the send succeeded is
\* dropped.  The iteration's event goes out of scope.
WorkerEmit(k) ==
    /\ wpc[k] = "emit"
    /\ \E sent \in BOOLEAN :
          lastSignal' = [lastSignal EXCEPT ![k] =
                           [msg |-> PropertiesChanged(changed[k]),
                            sent |-> sent]]
    /\ nsignals' = [nsignals EXCEPT ![k] = @ + 1]
    /\ cur' = [cur EXCEPT ![k] = NoEvent]
    /\ wpc' = [wpc EXCEPT ![k] = "process"]
    /\ UNCHANGED <<queue, state, changed, lockHeld, result>>
    /\ UNCHANGED <<fvars, hvars, bvars, cvars>>

\* The getter of the PlaybackStatus property that register_methods binds
\* to the state: it locks the state and answers with its token.
Get_PlaybackStatus(st) == get_playback_status(st)

\* Line 324: conn.process(1000 ms)?  It returns Ok, having served the
\* method calls that came in through the receive callback of line 242 (a
\* read of PlaybackStatus among them, or none); it returns an error that
\* `?` turns into the worker's result; or the callback unwraps a failed
\* handle_message and the thread panics.
WorkerProcess(k) ==
    /\ wpc[k] = "process"
    /\ \/ /\ wpc' = [wpc EXCEPT ![k] = "recv"]
          /\ \E asked \in BOOLEAN :
                reply' = [reply EXCEPT ![k] =
                            IF asked THEN Get_PlaybackStatus(state[k])
                            ELSE NoReply]
          /\ UNCHANGED <<queue, cur, state, changed, lockHeld, result,
                         nsignals, lastSignal>>
          /\ UNCHANGED <<accepted, applied>>
          /\ UNCHANGED bvars
       \/ Exit(k, Returned(FromDbusError("process")))
       \/ Exit(k, Panicked)
    /\ UNCHANGED <<fvars, cvars>>

Worker(k) ==
    \/ WorkerStart(k)
    \/ WorkerRecv(k)
    \/ WorkerDispatch(k)
    \/ WorkerSetDict(k)
    \/ WorkerSetMetadata(k)
    \/ WorkerSetPlayback(k)
    \/ WorkerSetVolume(k)
    \/ WorkerSetButton(k)
    \/ WorkerEmit(k)
    \/ WorkerProcess(k)

(***************************************************************************)
(* The specification.                                                      *)
(***************************************************************************)
SetterOver(playbacks, metadatas, volumes, buttons) ==
    \/ \E p \in playbacks : set_playback(p)
    \/ \E m \in metadatas : set_metadata(m)
    \/ \E v \in volumes : set_volume(v)
    \/ \E b \in buttons : set_button_enabled(b[1], b[2])

Setter ==
    SetterOver(PlaybackInputs, MediaMetadataInputs, VolumeInputs,
               ButtonInputs)

SetterAll ==
    SetterOver(AllPlaybackInputs, AllMediaMetadataInputs, AllVolumeInputs,
               AllButtonInputs)

Lifecycle ==
    \/ attach
    \/ detach
    \/ join
    \/ new_session
    \/ request_name
    \/ spawn
    \/ \E k \in Workers : Worker(k)
    \/ ExtRelease

Next == Setter \/ Lifecycle

Spec == Init /\ [][Next]_vars

\* The same program, fed the full input sets.
InitAll ==
    /\ InitProgram
    /\ budget = MaxAllCmds
    /\ spawnsLeft = MaxAllWorkers
    /\ codecIn = DefaultMetadata
    /\ codecOut = EmptyMap

NextAll == SetterAll \/ Lifecycle

AllSpec == InitAll /\ [][NextAll]_vars

\* The worker thread is scheduled, each recv_timeout and each conn.process
\* returns, and join returns once the thread has finished.
FairSpec ==
    /\ Spec
    /\ \A k \in Workers : WF_vars(Worker(k))
    /\ WF_vars(join)

(***************************************************************************)
(* The codec alone: create_metadata_dict applied to OwnedMetadata values.  *)
(***************************************************************************)
OptionOf(values) == {None} \cup { Some(v) : v \in values }

AllOwnedMetadata ==
    [title : OptionOf({"A", ""}),
     album : OptionOf({"L"}),
     artist : OptionOf({"X"}),
     cover_url : OptionOf({"file:///c.png"}),
     duration : OptionOf({-1, 0, 1000})]

InitCodec ==
    /\ InitProgram
    /\ budget = 0
    /\ spawnsLeft = 0
    /\ codecIn \in AllOwnedMetadata
    /\ codecOut = EmptyMap

Encode ==
    /\ codecOut = EmptyMap
    /\ codecOut' = create_metadata_dict(codecIn)
    /\ UNCHANGED <<codecIn, fvars, wvars, hvars, bvars>>

Pick ==
    /\ codecOut # EmptyMap
    /\ codecIn' \in AllOwnedMetadata
    /\ codecOut' = EmptyMap
    /\ UNCHANGED <<fvars, wvars, hvars, bvars>>

NextCodec == Encode \/ Pick

CodecSpec == InitCodec /\ [][NextCodec]_vars

(***************************************************************************)
(* Properties.                                                             *)
(***************************************************************************)
SetterOps ==
    {"set_playback", "set_metadata", "set_volume", "set_button_enabled"}

\* A step in which a facade call returns to its caller.
Returns == call'.seq # call.seq

Range(q) == { q[i] : i \in DOMAIN q }

SetupErrors ==
    { FromDbusError("new_session"), FromDbusError("request_name") }

\* C1: a setter called while the facade stores no worker handle returns
\* ThreadNotRunning, enqueues nothing and leaves the facade unchanged.
C1_NoHandleSetter ==
    [][ (fpc = "idle" /\ thread = NoThread /\ Returns
            /\ call'.op \in SetterOps)
        => /\ call'.ret = ThreadNotRunning
           /\ queue' = queue
           /\ thread' = thread
           /\ fpc' = "idle" ]_vars

\* C1, the calls that do return: a setter that finds no worker handle and
\* does not unwind returns ThreadNotRunning and changes nothing.
C1_NoHandleSetterReturns ==
    [][ (fpc = "idle" /\ thread = NoThread /\ Returns
            /\ call'.op \in SetterOps /\ call'.ret # CallerPanic)
        => /\ call'.ret = ThreadNotRunning
           /\ queue' = queue
           /\ thread' = thread
           /\ fpc' = "idle" ]_vars

\* C2: when detach returns, with whatever result, the facade stores no
\* worker handle; a detach called right after a detach returns Ok at once,
\* sends no Kill and waits for no worker.
C2_DetachClears ==
    /\ [][ (Returns /\ call'.op = "detach") => thread' = NoThread ]_vars
    /\ [][ (fpc = "idle" /\ call.op = "detach")
           => /\ ~(fpc' = "join")
              /\ (Returns /\ call'.op = "detach")
                 => (call'.ret = Ok /\ queue' = queue /\ wpc' = wpc) ]_vars

C2_Witness ==
    /\ fpc = "idle"
    /\ call.op = "detach"
    /\ call.ret = FromDbusError("process")
    /\ thread = NoThread

\* C3: at most one worker is alive and at most one connection owns the bus
\* name; a live worker is the one of the stored handle or the one being
\* joined; while attach or detach waits for a live worker, Kill is on its
\* way to it; and attach opens its connection, requests the name and spawns
\* only when no worker is alive.
C3_OneWorker ==
    /\ Cardinality({ k \in Workers : Alive(k) }) <= 1
    /\ Cardinality(holdsName) <= 1
    /\ \A k \in Workers :
          Alive(k) => (k = thread \/ (fpc = "join" /\ k = joining))
    /\ (fpc = "join" /\ Alive(joining))
          => (Kill \in Range(queue[joining]) \/ cur[joining] = Kill)
    /\ (fpc \in {"connect", "request", "spawn"} \/ conn # NoConn)
          => \A k \in Workers : ~Alive(k)

C3_Witness ==
    /\ fpc = "join"
    /\ fop = "attach"
    /\ Alive(joining)
    /\ holdsName = {joining}
    /\ Kill \in Range(queue[joining])

\* C4: an attach that fails to connect or to register the name returns the
\* D-Bus error, spawns no worker and stores no handle; the next setter
\* returns ThreadNotRunning and the next detach returns Ok without sending
\* or waiting.
C4_SetupFailure ==
    /\ [][ (Returns /\ call'.op = "attach" /\ call'.ret \in SetupErrors)
           => /\ thread' = NoThread
              /\ conn' = NoConn
              /\ wpc' = wpc
              /\ nspawned' = nspawned ]_vars
    /\ [][ (fpc = "idle" /\ call.op = "attach" /\ call.ret \in SetupErrors)
           => /\ ~(fpc' = "join")
              /\ (Returns /\ call'.op \in SetterOps)
                 => (call'.ret = ThreadNotRunning /\ queue' = queue)
              /\ (Returns /\ call'.op = "detach")
                 => (call'.ret = Ok /\ queue' = queue) ]_vars

\* C4, apart from the setter that unwinds: the failed attach leaves no
\* worker and no handle, and the next detach is a no-op.
C4_SetupFailureNoPartialState ==
    /\ [][ (Returns /\ call'.op = "attach" /\ call'.ret \in SetupErrors)
           => /\ thread' = NoThread
              /\ conn' = NoConn
              /\ wpc' = wpc
              /\ nspawned' = nspawned ]_vars
    /\ [][ (fpc = "idle" /\ call.op = "attach" /\ call.ret \in SetupErrors)
           => /\ ~(fpc' = "join")
              /\ (Returns /\ call'.op \in SetterOps
                    /\ call'.ret # CallerPanic)
                 => (call'.ret = ThreadNotRunning /\ queue' = queue)
              /\ (Returns /\ call'.op = "detach")
                 => (call'.ret = Ok /\ queue' = queue) ]_vars

\* C5: the detach of an attached facade returns Ok exactly when the worker
\* returned Ok, ThreadPanicked exactly when the worker panicked, and the
\* worker's own error exactly when the worker returned that error.
C5_JoinOutcome ==
    [][ (fpc = "join" /\ fop = "detach" /\ Returns)
        => LET res == result[joining]
               ret == call'.ret
           IN  /\ call'.op = "detach"
               /\ (ret = Ok) <=> (res = Returned(Ok))
               /\ (ret = ThreadPanicked) <=> (res = Panicked)
               /\ (ret \notin {Ok, ThreadPanicked})
                     <=> (res.kind = "returned" /\ res.value # Ok)
               /\ (res.kind = "returned") => (ret = res.value) ]_vars

C5_Witness ==
    /\ fpc = "idle"
    /\ call.op = "detach"
    /\ call.ret = ThreadPanicked
    /\ \E k \in Workers : result[k] = Panicked

\* C6: once a worker has dequeued Kill it changes no state, emits nothing
\* and does not service the transport: its next step ends it with Ok; and
\* the join of attach or detach returns only for a worker that has ended.
C6_AfterKill ==
    /\ [][ \A k \in Workers :
             (cur[k] = Kill)
             => /\ wpc[k] = "dispatch"
                /\ wpc'[k] \in {"dispatch", "done"}
                /\ (wpc'[k] = "done") => (result'[k] = Returned(Ok))
                /\ nsignals'[k] = nsignals[k]
                /\ state'[k] \in {state[k], NoState}
                /\ lastSignal'[k] \in {lastSignal[k], NoSignal} ]_vars
    /\ [][ (fpc = "join" /\ fpc' # "join")
           => (wpc[joining] = "done" /\ wpc'[joining] = "done") ]_vars

C6_Witness ==
    \E k \in Workers :
       /\ cur[k] = Kill
       /\ wpc[k] = "dispatch"
       /\ nsignals[k] > 0
       /\ fpc = "join"

\* C7: with the worker scheduled fairly, a detach that waits for its
\* worker returns, whatever commands were enqueued before it.
C7_DetachReturns ==
    (fpc = "join" /\ fop = "detach") ~> (fpc = "idle" /\ call.op = "detach")

C7_Witness ==
    /\ fpc = "join"
    /\ fop = "detach"
    /\ Alive(joining)
    /\ Len(queue[joining]) = MaxCmds + 1

\* The mapping table of the commands, and the state field a command sets.
CapabilityKey(button) ==
    CASE button = "Play" -> "CanPlay"
      [] button = "Pause" -> "CanPause"
      [] button = "Next" -> "CanGoNext"
      [] button = "Previous" -> "CanGoPrevious"
      [] button = "Seek" -> "CanSeek"

CapabilityFlag(st, button) ==
    CASE button = "Play" -> st.can_play
      [] button = "Pause" -> st.can_pause
      [] button = "Next" -> st.can_go_next
      [] button = "Previous" -> st.can_go_previous
      [] button = "Seek" -> st.can_seek

ExpectedChanged(ev, st) ==
    CASE ev.type = "ChangeMetadata" ->
            ("Metadata" :> Variant("a{sv}", st.metadata_dict))
      [] ev.type = "ChangePlayback" ->
            ("PlaybackStatus" :> Variant("String", st.playback_status.kind))
      [] ev.type = "ChangeVolume" ->
            ("Volume" :> Variant("f64", st.volume))
      [] ev.type = "ChangeButtonEnabled" ->
            IF ev.button = "Stop"
            THEN EmptyMap
            ELSE (CapabilityKey(ev.button)
                     :> Variant("bool", CapabilityFlag(st, ev.button)))

FieldApplied(ev, st) ==
    CASE ev.type = "ChangeMetadata" ->
            /\ st.metadata = ev.metadata
            /\ st.metadata_dict = create_metadata_dict(ev.metadata)
      [] ev.type = "ChangePlayback" -> st.playback_status = ev.playback
      [] ev.type = "ChangeVolume" -> st.volume = ev.volume
      [] ev.type = "ChangeButtonEnabled" ->
            ev.button # "Stop" => CapabilityFlag(st, ev.button) = ev.enabled

\* C8: when the worker comes to emit for a command, changed_properties is
\* exactly the command's row of the mapping table, with the value of the
\* state field the command has just set; no message has a CanStop key.
C8_ChangedSet ==
    \A k \in Workers :
       /\ (wpc[k] = "emit")
             => /\ changed[k] = ExpectedChanged(cur[k], state[k])
                /\ FieldApplied(cur[k], state[k])
       /\ (lastSignal[k] # NoSignal)
             => "CanStop" \notin DOMAIN lastSignal[k].msg.changed_properties

C8_Witness ==
    \E k \in Workers :
       /\ wpc[k] = "emit"
       /\ cur[k] = ChangeButtonEnabled("Stop", FALSE)
       /\ changed[k] = EmptyMap

\* C9: every message the worker passes to conn.send has a non-empty set of
\* changed properties, names the player interface and invalidates nothing.
C9_EmitIffNonEmpty ==
    \A k \in Workers :
       (lastSignal[k] # NoSignal)
       => /\ lastSignal[k].msg.changed_properties # EmptyMap
          /\ lastSignal[k].msg.interface_name = PlayerInterface
          /\ lastSignal[k].msg.invalidated_properties = <<>>

\* C9, what the loop does: one message per processed command, whatever its
\* set of changed properties, for the player interface and invalidating
\* nothing.
C9_OneSendPerCommand ==
    [][ \A k \in Workers :
          (wpc[k] = "emit" /\ wpc'[k] # "emit")
          => /\ nsignals'[k] = nsignals[k] + 1
             /\ lastSignal'[k].msg.changed_properties = changed[k]
             /\ lastSignal'[k].msg.interface_name = PlayerInterface
             /\ lastSignal'[k].msg.invalidated_properties = <<>> ]_vars

\* The keys of the wire dictionary, per field of the metadata.
MetadataFields == {"title", "album", "artist", "cover_url", "duration"}

MetadataKey(f) ==
    CASE f = "title" -> "xesam:title"
      [] f = "album" -> "xesam:album"
      [] f = "artist" -> "xesam:artist"
      [] f = "cover_url" -> "mpris:artUrl"
      [] f = "duration" -> "mpris:length"

Present(m) == { f \in MetadataFields : m[f] # None }

\* C10: the dictionary of a metadata value has the track identifier and one
\* key per present field, no key for an absent one; each value is its
\* field, the artist as a list of one string.
C10_Codec ==
    (codecOut # EmptyMap)
    => /\ DOMAIN codecOut =
             {"mpris:trackid"} \cup { MetadataKey(f) : f \in Present(codecIn) }
       /\ codecOut["mpris:trackid"] = Variant("Path", "/")
       /\ \A f \in Present(codecIn) :
             codecOut[MetadataKey(f)].value =
                IF f = "artist" THEN <<codecIn.artist[1]>> ELSE codecIn[f][1]
       /\ (codecIn = DefaultMetadata) => (DOMAIN codecOut = {"mpris:trackid"})

C10_Witness ==
    /\ codecIn = [DefaultMetadata EXCEPT !.title = Some("A"),
                                         !.duration = Some(1000)]
    /\ DOMAIN codecOut = {"mpris:trackid", "xesam:title", "mpris:length"}
    /\ codecOut["xesam:title"].value = "A"
    /\ codecOut["mpris:length"].value = 1000

\* The commands of one type in a sequence of commands, and the worker's
\* positions at which its ServiceState exists.
OfType(q, ty) == SelectSeq(q, LAMBDA e : e.type = ty)

Live(k) == wpc[k] \in {"recv", "dispatch", "mutate", "mutate2", "emit",
                       "process"}

\* The exported token of a playback status: its variant, without the
\* progress it carries.
TokenOf(p) == p.kind

\* C11 as stated: a PlaybackStatus read served after set_playback(s) has
\* returned Ok, no other set_playback having returned Ok since, answers the
\* token of s.
C11_QueryAfterSet ==
    [][ \A k \in Workers :
          (wpc[k] = "process" /\ reply'[k] # NoReply
              /\ OfType(accepted[k], "ChangePlayback") # <<>>)
          => LET sets == OfType(accepted[k], "ChangePlayback")
             IN  reply'[k] = TokenOf(sets[Len(sets)].playback) ]_vars

\* C11, amended: a PlaybackStatus read served after the worker has applied
\* ChangePlayback(s), no other ChangePlayback having been applied since,
\* answers the token of s whatever progress s carries; a read served
\* before the worker has applied any answers "Stopped".
C11_QueryAfterApplied ==
    [][ \A k \in Workers :
          (wpc[k] = "process" /\ reply'[k] # NoReply)
          => LET done == OfType(applied[k], "ChangePlayback")
             IN  reply'[k] = IF done = <<>> THEN "Stopped"
                             ELSE TokenOf(done[Len(done)].playback) ]_vars

C11_Witness ==
    \E k \in Workers :
       /\ reply[k] = "Paused"
       /\ applied[k] = <<ChangePlayback(Paused(Some(7)))>>
       /\ accepted[k] = applied[k]

\* The commands a worker has still to apply: the one it has dequeued and
\* not yet applied, then those of its channel, Kill apart.
Remaining(k) ==
    (IF wpc[k] \in {"dispatch", "mutate", "mutate2"} /\ cur[k] # Kill
     THEN <<cur[k]>> ELSE <<>>)
    \o SelectSeq(queue[k], LAMBDA e : e # Kill)

\* The volume a sequence of commands leaves, applied in order to a fresh
\* state.
VolumeAfter(q) ==
    LET vols == OfType(q, "ChangeVolume")
    IN  IF vols = <<>> THEN DefaultVolume ELSE vols[Len(vols)].volume

\* C12: with set_volume called in any interleaving with the worker's
\* steps, the commands the channel accepted are, in the order it accepted
\* them, those the worker has applied followed by those it has still to
\* apply (none lost, none twice); the volume is at every moment the one
\* the applied commands leave, it changes only where a ChangeVolume is
\* applied; and once the channel is drained it is the value of the last
\* command accepted.
C12_VolumeOrder ==
    /\ \A k \in Workers :
          /\ Alive(k) => (accepted[k] = applied[k] \o Remaining(k))
          /\ Live(k) => (state[k].volume = VolumeAfter(applied[k]))
          /\ (Live(k) /\ Remaining(k) = <<>>)
                => (state[k].volume = VolumeAfter(accepted[k]))

C12_Witness ==
    \E k \in Workers :
       /\ Live(k)
       /\ accepted[k] = <<ChangeVolume(150), ChangeVolume(0)>>
       /\ applied[k] = accepted[k]
       /\ state[k].volume = 0

TransportFailure == Returned(FromDbusError("process"))

\* C13: a conn.process that fails ends the worker in that very step, with
\* the D-Bus error as the value run_service returns; a worker that has
\* ended dequeues, applies and sends nothing more; and the detach (that of
\* attach included) that joins this worker returns that error, which is
\* neither Ok nor ThreadPanicked.
C13_TransportFailure ==
    /\ [][ \A k \in Workers :
             (wpc[k] = "process" /\ wpc'[k] = "done"
                 /\ result'[k].kind = "returned")
             => /\ result'[k] = TransportFailure
                /\ nsignals'[k] = nsignals[k]
                /\ queue'[k] = <<>> ]_vars
    /\ [][ \A k \in Workers :
             (wpc[k] = "done")
             => /\ wpc'[k] = "done"
                /\ result'[k] = result[k]
                /\ nsignals'[k] = nsignals[k]
                /\ queue'[k] = <<>>
                /\ applied'[k] = applied[k] ]_vars
    /\ [][ (fpc = "join" /\ fpc' # "join"
              /\ result[joining] = TransportFailure)
           => /\ Returns
              /\ call'.op = fop
              /\ call'.ret = FromDbusError("process")
              /\ call'.ret \notin {Ok, ThreadPanicked}
              /\ thread' = NoThread ]_vars

C13_Witness ==
    /\ fpc = "idle"
    /\ call.op = "detach"
    /\ call.ret = FromDbusError("process")
    /\ \E k \in Workers :
          /\ result[k] = TransportFailure
          /\ nsignals[k] = MaxCmds

\* C14: a setter called while the facade stores the handle of a worker that
\* has ended returns ThreadPanicked, which is not ThreadNotRunning, and
\* leaves the handle stored, so that the next setter finds the same.
C14_DeadWorkerSetter ==
    [][ (fpc = "idle" /\ thread # NoThread /\ ~ReceiverExists(thread)
            /\ Returns /\ call'.op \in SetterOps)
        => /\ call'.ret = ThreadPanicked
           /\ call'.ret # ThreadNotRunning
           /\ thread' = thread
           /\ ~ReceiverExists(thread)'
           /\ queue' = queue ]_vars

\* C14, the calls that do return: a setter that finds the handle of an
\* ended worker and does not unwind returns ThreadPanicked and leaves the
\* handle stored.
C14_DeadWorkerSetterReturns ==
    [][ (fpc = "idle" /\ thread # NoThread /\ ~ReceiverExists(thread)
            /\ Returns /\ call'.op \in SetterOps
            /\ call'.ret # CallerPanic)
        => /\ call'.ret = ThreadPanicked
           /\ call'.ret # ThreadNotRunning
           /\ thread' = thread
           /\ ~ReceiverExists(thread)'
           /\ queue' = queue ]_vars

\* C15: whenever a worker's state exists and its lock is not held, the
\* cached dictionary is the codec's output for the current metadata, from
\* the worker's start on; and the dictionary and the metadata change only
\* in steps taken with the lock held.
C15_DictConsistent ==
    /\ [](\A k \in Workers :
            (Live(k) /\ ~lockHeld[k])
            => state[k].metadata_dict =
                  create_metadata_dict(state[k].metadata))
    /\ [][ \A k \in Workers :
             (Live(k) /\ Live(k)'
                 /\ (state'[k].metadata_dict # state[k].metadata_dict
                       \/ state'[k].metadata # state[k].metadata))
             => (lockHeld[k] /\ cur[k].type = "ChangeMetadata") ]_vars

C15_Witness ==
    \E k \in Workers :
       /\ Live(k)
       /\ ~lockHeld[k]
       /\ state[k].metadata.title = Some("A")
       /\ state[k].metadata.album = Some("L")
       /\ DOMAIN state[k].metadata_dict =
             {"mpris:trackid", "mpris:length", "mpris:artUrl", "xesam:title",
              "xesam:artist", "xesam:album"}

\* The fields of ServiceState, and those a command may write.
StateFields ==
    {"metadata", "metadata_dict", "playback_status", "volume", "can_play",
     "can_pause", "can_go_next", "can_go_previous", "can_seek"}

FlagField(button) ==
    CASE button = "Play" -> "can_play"
      [] button = "Pause" -> "can_pause"
      [] button = "Next" -> "can_go_next"
      [] button = "Previous" -> "can_go_previous"
      [] button = "Seek" -> "can_seek"

OwnFields(ev) ==
    CASE ev.type = "ChangeMetadata" -> {"metadata", "metadata_dict"}
      [] ev.type = "ChangePlayback" -> {"playback_status"}
      [] ev.type = "ChangeVolume" -> {"volume"}
      [] ev.type = "ChangeButtonEnabled" ->
            IF ev.button = "Stop" THEN {} ELSE {FlagField(ev.button)}
      [] OTHER -> {}

\* C16: a field of a worker's state changes only while the worker applies a
\* command, and only if it is a field of that command: the metadata and
\* its dictionary for ChangeMetadata, the playback status for
\* ChangePlayback, the volume for ChangeVolume, the flag of b for
\* ChangeButtonEnabled(b, v), none for ChangeButtonEnabled(Stop, v); the
\* volume applied is the value passed, whatever its range; and the
\* playback status of a worker that starts is Stopped.
C16_Frame ==
    [][ \A k \in Workers :
          (Live(k)' /\ state'[k] # state[k])
          => IF Live(k)
             THEN /\ wpc[k] \in {"mutate", "mutate2"}
                  /\ \A f \in StateFields :
                        (state'[k][f] # state[k][f]) => f \in OwnFields(cur[k])
                  /\ (cur[k].type = "ChangeVolume")
                        => state'[k].volume = cur[k].volume
             ELSE state'[k].playback_status = Stopped ]_vars

C16_Witness ==
    \E k \in Workers :
       /\ wpc[k] = "emit"
       /\ cur[k] = ChangeVolume(150)
       /\ state[k] = [InitialServiceState EXCEPT !.volume = 150]

\* C17: a worker holds the lock of its state only between the start of a
\* command's match arm and its end: never where it sends the change
\* message, waits on its channel or calls conn.process; the lock is taken
\* once per command other than Kill and is released when the command has
\* been applied, before the message is built and sent.
C17_LockScope ==
    /\ [](\A k \in Workers :
            /\ lockHeld[k] => wpc[k] \in {"mutate", "mutate2"}
            /\ wpc[k] \in {"mutate", "mutate2"} => lockHeld[k])
    /\ [][ \A k \in Workers :
             /\ (~lockHeld[k] /\ lockHeld'[k])
                   => (wpc[k] = "dispatch" /\ cur[k] # Kill)
             /\ (lockHeld[k] /\ ~lockHeld'[k])
                   => /\ wpc'[k] = "emit"
                      /\ Len(applied'[k]) = Len(applied[k]) + 1
                      /\ nsignals'[k] = nsignals[k]
             /\ (wpc[k] = "emit" /\ nsignals'[k] # nsignals[k])
                   => ~lockHeld[k] ]_vars

C17_Witness ==
    \E k \in Workers :
       /\ wpc[k] = "emit"
       /\ ~lockHeld[k]
       /\ cur[k].type = "ChangeMetadata"
       /\ Len(applied[k]) = 2

\* A worker whose last send of a change message failed.
EmitFailed(k) == lastSignal[k] # NoSignal /\ ~lastSignal[k].sent

\* C18: no outcome of a worker's send ends the worker; the step in which
\* the send fails keeps the state the command left, counts one send and
\* leads to conn.process;
\* a worker has at every moment sent once per command applied, the one
\* being sent apart; and after a failed send the worker still takes the
\* next command of its channel and returns Ok when that one is Kill.
C18_EmitFailure ==
    /\ [][ \A k \in Workers :
             (wpc[k] = "emit")
             => (wpc'[k] \in {"emit", "process"} /\ result'[k] = NoResult)
        ]_vars
    /\ [][ \A k \in Workers :
             (wpc[k] = "emit" /\ wpc'[k] # "emit" /\ EmitFailed(k)')
             => /\ wpc'[k] = "process"
                /\ state'[k] = state[k]
                /\ FieldApplied(applied[k][Len(applied[k])], state'[k])
                /\ result'[k] = NoResult
                /\ nsignals'[k] = nsignals[k] + 1
                /\ applied'[k] = applied[k]
                /\ queue'[k] = queue[k] ]_vars
    /\ [](\A k \in Workers :
            Live(k) => nsignals[k] =
                          Len(applied[k]) - (IF wpc[k] = "emit" THEN 1 ELSE 0))
    /\ [][ \A k \in Workers :
             (EmitFailed(k) /\ wpc[k] = "recv" /\ wpc'[k] # "recv"
                 /\ queue[k] # <<>>)
             => (wpc'[k] = "dispatch" /\ cur'[k] = Head(queue[k])) ]_vars
    /\ [][ \A k \in Workers :
             (EmitFailed(k) /\ cur[k] = Kill /\ wpc'[k] # wpc[k])
             => (wpc'[k] = "done" /\ result'[k] = Returned(Ok)) ]_vars

C18_Witness ==
    \E k \in Workers :
       /\ EmitFailed(k)
       /\ wpc[k] = "emit"
       /\ Len(applied[k]) = 2
       /\ nsignals[k] = 1

\* C19: the state a worker starts with is the fixed one (the five flags
\* true, Stopped, volume 1.0, no metadata, a dictionary of the track
\* identifier alone), whatever earlier workers have applied.
C19_FreshState ==
    [][ \A k \in Workers :
          (~Live(k) /\ Live(k)')
          => /\ state'[k] =
                   [metadata |-> [title |-> None, album |-> None,
                                  artist |-> None, cover_url |-> None,
                                  duration |-> None],
                    metadata_dict |->
                       ("mpris:trackid" :> Variant("Path", "/")),
                    playback_status |-> Stopped,
                    volume |-> 100,
                    can_play |-> TRUE, can_pause |-> TRUE,
                    can_go_next |-> TRUE, can_go_previous |-> TRUE,
                    can_seek |-> TRUE]
             /\ applied'[k] = <<>> ]_vars

C19_Witness ==
    /\ wpc[2] = "recv"
    /\ state[2].volume = 100
    /\ state[2].metadata = DefaultMetadata
    /\ wpc[1] = "done"
    /\ nsignals[1] = MaxCmds

\* C20: when a worker returns Ok, the commands it has applied are, in
\* order and each once, the commands its channel accepted, it has sent one
\* message per command and nothing is left in its channel; a command is
\* accepted exactly where a setter returns Ok, and none is accepted once
\* Kill has been sent.
C20_NoLoss ==
    /\ [][ \A k \in Workers :
             (wpc[k] # "done" /\ wpc'[k] = "done"
                 /\ result'[k] = Returned(Ok))
             => /\ cur[k] = Kill
                /\ applied[k] = accepted[k]
                /\ nsignals[k] = Len(applied[k])
                /\ queue[k] = <<>> ]_vars
    /\ [][ (Returns /\ call'.op \in SetterOps)
           => ((call'.ret = Ok)
                 <=> /\ thread # NoThread
                     /\ Len(accepted'[thread]) = Len(accepted[thread]) + 1
                     /\ LET ev == accepted'[thread][Len(accepted'[thread])]
                        IN  /\ accepted'[thread] = Append(accepted[thread], ev)
                            /\ queue'[thread] = Append(queue[thread], ev))
        ]_vars
    /\ [][ \A k \in Workers :
             (Kill \in Range(queue[k]) \/ cur[k] = Kill)
             => accepted'[k] \in {accepted[k], <<>>} ]_vars

C20_Witness ==
    \E k \in Workers :
       /\ cur[k] = Kill
       /\ wpc[k] = "dispatch"
       /\ Len(applied[k]) = MaxCmds
       /\ applied[k] = accepted[k]
       /\ applied[k][1] # applied[k][2]

====
